---- MODULE Spec2Model ----
(***************************************************************************)
(* Delivery Slot Picker (DeliverySlotPicker/src/App.js).                   *)
(*                                                                         *)
(* A JavaScript Date is modelled by its local calendar day, counted from   *)
(* day 0 = Wednesday 10 January 2024.  Every Date operation the program   *)
(* uses (getDay, getDate, setDate(getDate() + 1), toDateString) reads or   *)
(* writes the calendar day only; the time of day that new Date() carries   *)
(* is copied unchanged through the whole computation and is not modelled.  *)
(***************************************************************************)
EXTENDS Integers, Sequences, FiniteSets, TLC

VARIABLES
    today,          \* the calendar day new Date() returns
    groupSize,      \* App state groupSize / the groupSize argument
    isSpecialItem,  \* App state isSpecialItem / the isSpecialItem argument
    dates,          \* DateSlotPicker state dates / the dates argument
    selectedSlots,  \* DateSlotPicker state selectedSlots: key -> boolean
    clickParity,    \* parity of the number of click events delivered to cells
    pc,             \* position of the call or component under examination
    i,              \* groupDates: local i
    grouped,        \* groupDates: local grouped
    result,         \* generateDates: returned array
    argDate,        \* isUnavailable: argument date
    argSlot,        \* isUnavailable: argument slot
    status          \* isUnavailable: returned value

vars == <<today, groupSize, isSpecialItem, dates, selectedSlots, clickParity,
          pc, i, grouped, result, argDate, argSlot, status>>

-----------------------------------------------------------------------------
(* Bounds *)

MaxToday == 400       \* latest clock day of the function specifications
MaxGroupSize == 30    \* largest groupSize handed to generateDates
MaxDateVal == 2       \* groupDates is fed dates 0..MaxDateVal
MaxLen == 5           \* longest array handed to groupDates
MaxGroupArg == 4      \* largest groupSize handed to groupDates
MaxNeg == 2           \* most negative groupSize handed to groupDates
MaxSpin == 3          \* iterations followed of a groupDates loop that cannot end
MaxUIToday == 1       \* latest day on which the page is opened and used
MaxClickDates == 3    \* clicks land on the first MaxClickDates rendered dates
MaxKeys == 2          \* most keys followed in selectedSlots

-----------------------------------------------------------------------------
(* The calendar behind Date *)

IsLeap(y) == (y % 4 = 0) /\ ((y % 100 # 0) \/ (y % 400 = 0))

YearLen(y) == IF IsLeap(y) THEN 366 ELSE 365

MonthLen(y, m) ==
    IF m = 1 THEN (IF IsLeap(y) THEN 29 ELSE 28)
    ELSE IF m \in {3, 5, 8, 10} THEN 30
    ELSE 31

\* <<year, day of the year (0-based)>> of the n-th day after 1 Jan of year y
RECURSIVE YearOf(_, _)
YearOf(n, y) ==
    IF n < YearLen(y) THEN <<y, n>> ELSE YearOf(n - YearLen(y), y + 1)

\* <<month (0-based, as getMonth), day of the month (1-based)>>
RECURSIVE MonthOf(_, _, _)
MonthOf(n, y, m) ==
    IF n < MonthLen(y, m) THEN <<m, n + 1>>
    ELSE MonthOf(n - MonthLen(y, m), y, m + 1)

\* day 0 is the 10th day of 2024
getFullYear(d) == YearOf(d + 9, 2024)[1]

getMonth(d) == MonthOf(YearOf(d + 9, 2024)[2], getFullYear(d), 0)[1]

\* date.getDate(): day of the month, 1..31
getDate(d) == MonthOf(YearOf(d + 9, 2024)[2], getFullYear(d), 0)[2]

\* date.getDay(): Sunday = 0, Monday = 1, ..., Saturday = 6
getDay(d) == (d + 3) % 7

\* date.setDate(date.getDate() + 1): the next calendar day, rolling over
\* month and year ends
AddDay(d) == d + 1

\* date.toDateString(): "Wed Jan 10 2024" as <<weekday, month, day, year>>
toDateString(d) == <<getDay(d), getMonth(d), getDate(d), getFullYear(d)>>

-----------------------------------------------------------------------------
(* generateDates *)

\* four weeks counted as four times the six delivery days of a week
ValidDays_SixDayWeeks == 4 * 6

\* the number of valid days the first loop collects
ValidDays == 28

\* the first loop with the cursor advanced only when a Sunday is skipped
RECURSIVE Loop28_AdvanceOnSkip(_, _, _)
Loop28_AdvanceOnSkip(date, ds, validDays) ==
    IF validDays < ValidDays
    THEN IF getDay(date) # 0
         THEN Loop28_AdvanceOnSkip(date, Append(ds, date), validDays + 1)
         ELSE Loop28_AdvanceOnSkip(AddDay(date), ds, validDays)
    ELSE <<date, ds>>

\* the first loop: returns <<date, dates>>, the cursor and the array
RECURSIVE Loop28(_, _, _)
Loop28(date, ds, validDays) ==
    IF validDays < ValidDays
    THEN IF getDay(date) # 0
         THEN Loop28(AddDay(date), Append(ds, date), validDays + 1)
         ELSE Loop28(AddDay(date), ds, validDays)
    ELSE <<date, ds>>

\* extraDaysNeeded without the test remainder !== 0
ExtraDaysNeeded_NoZeroTest(len, gs) == gs - (len % gs)

\* extraDaysNeeded, 0 when the remainder is 0 (the padding loop is skipped)
ExtraDaysNeeded(len, gs) ==
    LET remainder == len % gs
    IN  IF remainder # 0 THEN gs - remainder ELSE 0

\* the padding loop without its Sunday test
RECURSIVE PadLoop_NoSundayTest(_, _, _, _)
PadLoop_NoSundayTest(date, ds, k, extraDaysNeeded) ==
    IF k < extraDaysNeeded
    THEN PadLoop_NoSundayTest(AddDay(date), Append(ds, AddDay(date)), k + 1,
                              extraDaysNeeded)
    ELSE ds

\* the padding loop: the cursor is advanced before it is examined
RECURSIVE PadLoop(_, _, _, _)
PadLoop(date, ds, k, extraDaysNeeded) ==
    IF k < extraDaysNeeded
    THEN LET d == AddDay(date)
         IN  IF getDay(d) # 0
             THEN PadLoop(d, Append(ds, d), k + 1, extraDaysNeeded)
             ELSE PadLoop(d, ds, (k - 1) + 1, extraDaysNeeded)
    ELSE ds

generateDates(now, gs) ==
    LET first == Loop28(now, <<>>, 0)
    IN  PadLoop(first[1], first[2], 0, ExtraDaysNeeded(Len(first[2]), gs))

-----------------------------------------------------------------------------
(* Specification of generateDates as a function of the clock and groupSize *)

IdleUI ==
    /\ isSpecialItem = TRUE
    /\ dates = <<>>
    /\ selectedSlots = <<>>
    /\ clickParity = FALSE

IdleGroup == i = 0 /\ grouped = <<>>

IdleAvail == argDate = 0 /\ argSlot = "AM" /\ status = "none"

InitGenerate ==
    /\ today \in 0..MaxToday
    /\ groupSize \in 1..MaxGroupSize
    /\ pc = "idle"
    /\ result = <<>>
    /\ IdleUI /\ IdleGroup /\ IdleAvail

CallGenerateDates ==
    /\ pc = "idle"
    /\ result' = generateDates(today, groupSize)
    /\ pc' = "done"
    /\ UNCHANGED <<today, groupSize, isSpecialItem, dates, selectedSlots,
                   i, grouped, argDate, argSlot, status,
                   clickParity>>

NextGenerate == CallGenerateDates

SpecGenerate == InitGenerate /\ [][NextGenerate]_vars

-----------------------------------------------------------------------------
(* Properties of generateDates, checked under SpecGenerate *)

\* C1: for every positive groupSize and every current date, generateDates
\* returns 28 + extraNeeded dates, extraNeeded being 0 when 28 mod groupSize
\* is 0 and groupSize - (28 mod groupSize) otherwise: the smallest multiple
\* of groupSize that is at least 28.
C1_Length ==
    pc = "done" =>
        /\ Len(result) =
             28 + (IF 28 % groupSize = 0 THEN 0 ELSE groupSize - (28 % groupSize))
        /\ Len(result) % groupSize = 0
        /\ Len(result) >= 28
        /\ Len(result) - groupSize < 28

\* a call that padded 28 dates to 30
C1_Witness == pc = "done" /\ groupSize = 5 /\ Len(result) = 30

\* C2: no element of generateDates(groupSize) falls on a Sunday, among the
\* first 28 dates or among the padded ones.
C2_NoSunday ==
    pc = "done" => \A k \in 1..Len(result) : getDay(result[k]) # 0

\* a call whose padding phase walked over a Sunday
C2_Witness ==
    /\ pc = "done"
    /\ Len(result) > 28
    /\ \E d \in result[28]..result[Len(result)] : getDay(d) = 0

\* C3: generateDates(groupSize) is strictly increasing, each element a later
\* calendar day than the one before it, the 28th date and the first padded
\* date included.
C3_Increasing ==
    pc = "done" => \A k \in 1..(Len(result) - 1) : result[k] < result[k + 1]

\* a call that padded, seen at the boundary between the two phases
C3_Witness ==
    pc = "done" /\ Len(result) > 28 /\ result[29] > result[28]

\* C6: for generateDates(4) the number of days between the first and the
\* last element is at least 27 and less than 35.
C6_Span ==
    (pc = "done" /\ groupSize = 4) =>
        LET diff == result[Len(result)] - result[1]
        IN  diff >= 27 /\ diff < 35

\* a call on a Saturday, the longest span: 32 days
C6_Witness ==
    /\ pc = "done"
    /\ groupSize = 4
    /\ getDay(today) = 6
    /\ result[Len(result)] - result[1] = 32

\* C9: the walk skips Sundays and nothing else: the result is the first
\* Len(result) non-Sunday days on or after the current date, so every
\* non-Sunday day from the current date to the last element is in it.
C9_OnlySundaysSkipped ==
    pc = "done" =>
        /\ \A k \in 1..Len(result) : result[k] >= today /\ getDay(result[k]) # 0
        /\ \A d \in today..result[Len(result)] :
               getDay(d) # 0 => \E k \in 1..Len(result) : result[k] = d

-----------------------------------------------------------------------------
(* groupDates *)

Min(a, b) == IF a < b THEN a ELSE b

Max(a, b) == IF a > b THEN a ELSE b

\* Array.prototype.slice(start, end): a negative index counts from the end,
\* both are clamped to 0..length, the result is empty when end <= start
Slice(arr, start, end) ==
    LET len == Len(arr)
        from == IF start < 0 THEN Max(len + start, 0) ELSE Min(start, len)
        to == IF end < 0 THEN Max(len + end, 0) ELSE Min(end, len)
    IN  SubSeq(arr, from + 1, to)

\* the loop condition of groupDates
GroupCond(ds, k) == k < Len(ds)

\* one iteration with slice(i, groupSize) in place of slice(i, i + groupSize)
GroupBody_SliceToSize(ds, gs, k, acc) ==
    <<k + gs, Append(acc, Slice(ds, k, gs))>>

\* one iteration of the loop of groupDates: the new <<i, grouped>>
GroupBody(ds, gs, k, acc) ==
    <<k + gs, Append(acc, Slice(ds, k, k + gs))>>

\* groupDates run to its return; it returns for every gs > 0
RECURSIVE GroupFrom(_, _, _, _)
GroupFrom(ds, gs, k, acc) ==
    IF GroupCond(ds, k)
    THEN GroupFrom(ds, gs, GroupBody(ds, gs, k, acc)[1],
                   GroupBody(ds, gs, k, acc)[2])
    ELSE acc

groupDates(ds, gs) == GroupFrom(ds, gs, 0, <<>>)

\* the dates of the groups in order, as the nested map of the render visits them
RECURSIVE Flatten(_)
Flatten(groups) ==
    IF groups = <<>> THEN <<>> ELSE Head(groups) \o Flatten(Tail(groups))

-----------------------------------------------------------------------------
(* Specification of groupDates, one loop iteration per step *)

SeqsUpTo(S, n) == UNION {[1..m -> S] : m \in 0..n}

InitGroup ==
    /\ dates \in SeqsUpTo(0..MaxDateVal, MaxLen)
    /\ groupSize \in (0 - MaxNeg)..MaxGroupArg
    /\ pc = "idle"
    /\ i = 0
    /\ grouped = <<>>
    /\ today = 0 /\ result = <<>>
    /\ isSpecialItem = TRUE /\ selectedSlots = <<>> /\ clickParity = FALSE
    /\ IdleAvail

CallGroupDates ==
    /\ pc = "idle"
    /\ i' = 0
    /\ grouped' = <<>>
    /\ pc' = "loop"
    /\ UNCHANGED <<today, groupSize, isSpecialItem, dates, selectedSlots,
                   result, argDate, argSlot, status,
                   clickParity>>

GroupLoop ==
    /\ pc = "loop"
    /\ GroupCond(dates, i)
    /\ groupSize > 0 \/ Len(grouped) < MaxSpin
    /\ i' = GroupBody(dates, groupSize, i, grouped)[1]
    /\ grouped' = GroupBody(dates, groupSize, i, grouped)[2]
    /\ UNCHANGED <<today, groupSize, isSpecialItem, dates, selectedSlots,
                   pc, result, argDate, argSlot, status,
                   clickParity>>

GroupReturn ==
    /\ pc = "loop"
    /\ ~GroupCond(dates, i)
    /\ pc' = "done"
    /\ UNCHANGED <<today, groupSize, isSpecialItem, dates, selectedSlots,
                   i, grouped, result, argDate, argSlot, status,
                   clickParity>>

NextGroup == CallGroupDates \/ GroupLoop \/ GroupReturn

SpecGroup == InitGroup /\ [][NextGroup]_vars

-----------------------------------------------------------------------------
(* Properties of groupDates, checked under SpecGroup *)

\* C5: for every input sequence and every positive groupSize, groupDates
\* returns the consecutive chunks of the input: every group but the last has
\* exactly groupSize elements, the last has between 1 and groupSize, and the
\* groups concatenated in order are the input sequence.
C5_Chunks ==
    (pc = "done" /\ groupSize > 0) =>
        /\ Flatten(grouped) = dates
        /\ \A g \in 1..(Len(grouped) - 1) : Len(grouped[g]) = groupSize
        /\ \A g \in 1..Len(grouped) : Len(grouped[g]) \in 1..groupSize
        /\ \A g \in 1..Len(grouped) : \A k \in 1..Len(grouped[g]) :
               grouped[g][k] = dates[(g - 1) * groupSize + k]

\* a returned grouping whose last group is shorter than the others
C5_Witness ==
    /\ pc = "done"
    /\ groupSize > 1
    /\ Len(grouped) >= 2
    /\ Len(dates) % groupSize # 0
    /\ Len(grouped[Len(grouped)]) < groupSize

\* C8: groupDates called with a groupSize of 0 or below fails with an
\* InvalidArgument condition: no group is ever built and no value is
\* returned.
C8_InvalidArgument ==
    groupSize <= 0 => (grouped = <<>> /\ pc # "done")

-----------------------------------------------------------------------------
(* isUnavailable *)

Slots == {"AM", "PM", "EVE"}

\* Math.ceil(n / 7) for a day of the month n >= 1
CeilDiv7(n) == (n + 6) \div 7

\* isUnavailable with Math.floor in place of Math.ceil
isUnavailable_Floor(date, slot, specialItem) ==
    LET day == getDay(date)
        isSecondFriday == (getDate(date) \div 7) % 2 = 0
    IN  IF specialItem /\ day = 3 THEN "unavailable"
        ELSE IF day = 5 /\ isSecondFriday /\ slot = "AM" THEN "full"
        ELSE "false"

\* returns 'unavailable', 'full' or false (written "false")
isUnavailable(date, slot, specialItem) ==
    LET day == getDay(date)
        isFriday == day = 5
        isWednesday == day = 3
        isSecondFriday == CeilDiv7(getDate(date)) % 2 = 0
    IN  IF specialItem /\ isWednesday THEN "unavailable"
        ELSE IF isFriday /\ isSecondFriday /\ slot = "AM" THEN "full"
        ELSE "false"

InitAvail ==
    /\ argDate \in 0..MaxToday
    /\ argSlot \in Slots
    /\ isSpecialItem \in BOOLEAN
    /\ pc = "idle"
    /\ status = "none"
    /\ today = 0 /\ groupSize = 3 /\ result = <<>>
    /\ dates = <<>> /\ selectedSlots = <<>> /\ clickParity = FALSE
    /\ IdleGroup

CallIsUnavailable ==
    /\ pc = "idle"
    /\ status' = isUnavailable(argDate, argSlot, isSpecialItem)
    /\ pc' = "done"
    /\ UNCHANGED <<today, groupSize, isSpecialItem, dates, selectedSlots,
                   i, grouped, result, argDate, argSlot,
                   clickParity>>

NextAvail == CallIsUnavailable

SpecAvail == InitAvail /\ [][NextAvail]_vars

-----------------------------------------------------------------------------
(* Properties of isUnavailable, checked under SpecAvail *)

\* C4: isUnavailable returns Unavailable when the flag is true and the date
\* is a Wednesday, for every slot; otherwise Full when the date is a Friday
\* with day of the month in 8..14 or 22..28 and the slot is AM; otherwise
\* Available.
C4_Rules ==
    pc = "done" =>
        status =
            IF isSpecialItem /\ getDay(argDate) = 3 THEN "unavailable"
            ELSE IF /\ getDay(argDate) = 5
                    /\ getDate(argDate) \in (8..14) \cup (22..28)
                    /\ argSlot = "AM"
                 THEN "full"
            ELSE "false"

\* the morning of a Friday in the fourth seven-day block of its month
C4_Witness ==
    /\ pc = "done"
    /\ status = "full"
    /\ getDate(argDate) \in 22..28
    /\ isSpecialItem

-----------------------------------------------------------------------------
(* The components: App, DateSlotPicker, Slot *)

\* the options of the group size <select>
GroupSizeOptions == {3, 4, 5, 6, 7}

\* the key of a cell in selectedSlots: `${date.toDateString()}-${slot}`
KeyOf(date, slot) == <<toDateString(date), slot>>

\* prev[key] read as a condition: an absent key is undefined, hence falsy
Truthy(obj, key) == key \in DOMAIN obj /\ obj[key]

\* the updater writing [key]: true in place of [key]: !prev[key]
handleSelect_SetTrue(prev, date, slot) ==
    (KeyOf(date, slot) :> TRUE) @@ prev

\* the updater handleSelect hands to setSelectedSlots
handleSelect(prev, date, slot) ==
    LET key == KeyOf(date, slot)
    IN  (key :> ~Truthy(prev, key)) @@ prev

\* the onClick of Slot: onSelect is called only when the cell is neither
\* unavailable nor full
onClick(prev, date, slot, specialItem) ==
    LET availabilityStatus == isUnavailable(date, slot, specialItem)
        isUnavailableSlot == availabilityStatus = "unavailable"
        isFullSlot == availabilityStatus = "full"
    IN  IF ~isUnavailableSlot /\ ~isFullSlot
        THEN handleSelect(prev, date, slot)
        ELSE prev

\* the dates of the date-blocks on the page, in the order of the render
RenderedDates == Flatten(groupDates(dates, groupSize))

\* the page is opened and used within one calendar day: every new Date() of
\* a behaviour returns the same day
Init ==
    /\ today \in 0..MaxUIToday
    /\ groupSize = 3
    /\ isSpecialItem = TRUE
    /\ dates = <<>>
    /\ selectedSlots = <<>>
    /\ clickParity = FALSE
    /\ pc = "render"
    /\ result = <<>>
    /\ IdleGroup /\ IdleAvail

\* the effect of DateSlotPicker after the first render
Mount ==
    /\ pc = "render"
    /\ dates' = generateDates(today, groupSize)
    /\ pc' = "mounted"
    /\ UNCHANGED <<today, groupSize, isSpecialItem, selectedSlots,
                   i, grouped, result, argDate, argSlot, status,
                   clickParity>>

\* onChange of the <select>, then the effect that depends on groupSize
SetGroupSize(n) ==
    /\ pc = "mounted"
    /\ n # groupSize
    /\ groupSize' = n
    /\ dates' = generateDates(today, n)
    /\ UNCHANGED <<today, isSpecialItem, selectedSlots,
                   pc, i, grouped, result, argDate, argSlot, status,
                   clickParity>>

\* onChange of the checkbox
ToggleSpecialItem ==
    /\ pc = "mounted"
    /\ isSpecialItem' = ~isSpecialItem
    /\ UNCHANGED <<today, groupSize, dates, selectedSlots,
                   pc, i, grouped, result, argDate, argSlot, status,
                   clickParity>>

\* a click on the cell (k-th date of rendered, slot), rendered being the
\* dates of the date-blocks on the page
ClickSlot(rendered, k, slot) ==
    /\ pc = "mounted"
    /\ UNCHANGED <<today, groupSize, isSpecialItem, dates,
                   pc, i, grouped, result, argDate, argSlot, status>>
    /\ clickParity' = ~clickParity
    /\ k \in 1..Min(Len(rendered), MaxClickDates)
    /\ selectedSlots' =
           onClick(selectedSlots, rendered[k], slot, isSpecialItem)
    /\ Cardinality(DOMAIN selectedSlots') <= MaxKeys

Next ==
    \/ Mount
    \/ \E n \in GroupSizeOptions : SetGroupSize(n)
    \/ ToggleSpecialItem
    \/ LET rendered == RenderedDates
       IN  \E k \in 1..MaxClickDates, slot \in Slots :
               ClickSlot(rendered, k, slot)

Spec == Init /\ [][Next]_vars

-----------------------------------------------------------------------------
(* Properties of the components, checked under Spec *)

\* C7: a click on the cell (date, slot) flips the selected flag of exactly
\* that key when the cell is Available under the current special-item flag,
\* and leaves the whole selection state unchanged when it is Unavailable or
\* Full; the selected flag of every other key is unchanged in both cases.
C7_ClickFrame ==
    [][LET rendered == RenderedDates
       IN  \A k \in 1..MaxClickDates, slot \in Slots :
             ClickSlot(rendered, k, slot) =>
               LET date == rendered[k]
                   key == KeyOf(date, slot)
                   keys == DOMAIN selectedSlots \cup DOMAIN selectedSlots'
                             \cup {key}
               IN  IF isUnavailable(date, slot, isSpecialItem) = "false"
                   THEN \A q \in keys :
                          Truthy(selectedSlots', q) =
                            IF q = key THEN ~Truthy(selectedSlots, q)
                            ELSE Truthy(selectedSlots, q)
                   ELSE selectedSlots' = selectedSlots]_vars

\* two cells were clicked: one is selected, the other was selected and then
\* cleared by a second click
C7_Witness ==
    \E a, b \in DOMAIN selectedSlots :
        a # b /\ selectedSlots[a] /\ ~selectedSlots[b]

\* C10: after any sequence of clicks, checkbox toggles and group-size
\* changes, every key whose selected flag is true is Available under the
\* current special-item flag: no Wednesday slot is selected while the flag
\* is on, and no Full slot is selected.
C10_SelectedAvailable ==
    \A key \in DOMAIN selectedSlots :
        selectedSlots[key] =>
            \A d \in 0..MaxToday :
                toDateString(d) = key[1] =>
                    isUnavailable(d, key[2], isSpecialItem) = "false"

====
